---- MODULE Spec2Model ----
(***************************************************************************)
(* Model of InstantTexture: instant_texture/converter.py (class Converter) *)
(* and instant_texture/utils.py (barycentric_interpolate,                  *)
(* is_point_in_triangle).                                                  *)
(*                                                                         *)
(* Numbers.  Mapped UV points are integers (astype(int)); texel centres    *)
(* are half-integers (x + 0.5).  A point p is carried doubled (p2 = 2p),   *)
(* and a float result is carried as an exact fraction <<num, den>> with    *)
(* den > 0, so that clipping and truncation are computed exactly.          *)
(***************************************************************************)
EXTENDS Integers, Sequences, FiniteSets, TLC

VARIABLES
    texture_size,     \* self.texture_size
    upscaling,        \* self.upscaling
    buffer_size,      \* self.buffer_size
    median_size,      \* self.median_size
    blur_radius,      \* self.blur_radius
    texture_buffer,   \* self.texture_buffer[y][x] = <<r, g, b, a>>
    texture,          \* self.texture (dimensions and filters applied)
    pc,               \* position inside convert, "idle" between calls
    arg_path,         \* convert's output_mesh_path argument
    output_mesh_path, \* convert's local output_mesh_path after validation
    mesh,             \* convert's local mesh / uvs / vertex_colors
    fi,               \* number of faces the rasterization loop has processed
    written,          \* written[i]: the (x, y) indices face i assigned to
    colors,           \* colors[i]: the color computed for each of them
    result,           \* what the last convert call returned or raised
    log,              \* side effects of the current call, in order
    calls,            \* number of convert calls started
    entry_buffer,     \* self.texture_buffer as it was when the call started
    args,             \* inputs of a direct call of the utils functions
    ret               \* its results

vars == <<texture_size, upscaling, buffer_size, median_size, blur_radius,
          texture_buffer, texture, pc, arg_path, output_mesh_path, mesh, fi,
          written, colors, result, log, calls, entry_buffer, args, ret>>

selfCfg == <<texture_size, upscaling, buffer_size, median_size, blur_radius>>

(***************************************************************************)
(* Bounds of the model.                                                    *)
(***************************************************************************)
MaxTextureSize == 2   \* texture_size ranges over 1..MaxTextureSize
MaxCalls == 2         \* convert calls on one Converter
MaxFaces == 2         \* faces of a multi-face mesh
UVDen == 2            \* UV coordinates are multiples of 1/UVDen
InterpGrid == 2       \* direct calls use points with coordinates 0..InterpGrid

(***************************************************************************)
(* Program constants.                                                      *)
(***************************************************************************)
DefaultUpscale == 2
DefaultMedian == 3
DefaultBlur == 1

(***************************************************************************)
(* Arithmetic helpers.                                                     *)
(***************************************************************************)
Min2(a, b) == IF a < b THEN a ELSE b
Max2(a, b) == IF a > b THEN a ELSE b
Min3(a, b, c) == Min2(a, Min2(b, c))
Max3(a, b, c) == Max2(a, Max2(b, c))

\* int(q) / astype(int): truncation towards zero of n / d, d > 0
Trunc(n, d) == IF n >= 0 THEN n \div d ELSE -((-n) \div d)


\* np.dot of two 2-vectors, and their difference
Dot(a, b) == a[1] * b[1] + a[2] * b[2]
Sub(a, b) == <<a[1] - b[1], a[2] - b[2]>>
Twice(a) == <<2 * a[1], 2 * a[2]>>

(***************************************************************************)
(* float64 arithmetic.  The values barycentric_interpolate computes are    *)
(* IEEE doubles; every one of them is a multiple of 2^-75 below 2^30, so a *)
(* double is carried exactly as a sign and a magnitude in units of 2^-75,  *)
(* the magnitude as seven base-2^15 digits, least significant first.  An   *)
(* operation is the exact operation followed by rounding to 53 significant *)
(* bits, ties to even, as the hardware does.  A zero carries no sign.      *)
(***************************************************************************)
LimbBits == 15
Base == 2^LimbBits
Limbs == 7
FracLimbs == 5
Mantissa == 53

MagZero == <<0, 0, 0, 0, 0, 0, 0>>

\* The magnitude of the integer n, 0 <= n < 2^30
MagOfInt(n) ==
    LET F(i) == IF i = FracLimbs + 1 THEN n % Base
                ELSE IF i = FracLimbs + 2 THEN n \div Base
                ELSE 0
    IN  <<F(1), F(2), F(3), F(4), F(5), F(6), F(7)>>

\* The magnitude whose only set bit is bit k
MagBit(k) ==
    LET F(i) == IF i = (k \div LimbBits) + 1 THEN 2^(k % LimbBits) ELSE 0
    IN  <<F(1), F(2), F(3), F(4), F(5), F(6), F(7)>>

\* -1, 0, 1 as a < b, a = b, a > b
RECURSIVE CmpFrom(_, _, _)
CmpFrom(a, b, i) ==
    IF i = 0 THEN 0
    ELSE IF a[i] > b[i] THEN 1
    ELSE IF a[i] < b[i] THEN -1
    ELSE CmpFrom(a, b, i - 1)
MagCmp(a, b) == CmpFrom(a, b, Limbs)

RECURSIVE AddFrom(_, _, _, _)
AddFrom(a, b, i, carry) ==
    IF i > Limbs THEN <<>>
    ELSE LET s == a[i] + b[i] + carry
         IN  <<s % Base>> \o AddFrom(a, b, i + 1, s \div Base)

\* a + b
MagAdd(a, b) == AddFrom(a, b, 1, 0)

RECURSIVE SubFrom(_, _, _, _)
SubFrom(a, b, i, borrow) ==
    IF i > Limbs THEN <<>>
    ELSE LET s == a[i] - b[i] - borrow
         IN  IF s < 0 THEN <<s + Base>> \o SubFrom(a, b, i + 1, 1)
             ELSE <<s>> \o SubFrom(a, b, i + 1, 0)

\* a - b, a >= b
MagSub(a, b) == SubFrom(a, b, 1, 0)

RECURSIVE MulFrom(_, _, _, _)
MulFrom(a, c, i, carry) ==
    IF i > Limbs THEN <<>>
    ELSE LET s == a[i] * c + carry
         IN  <<s % Base>> \o MulFrom(a, c, i + 1, s \div Base)

\* a * c for an integer 0 <= c < 2^15
MagMul(a, c) == MulFrom(a, c, 1, 0)

\* Quotient digits i..1 and remainder of the long division of a by d,
\* 0 < d <= 2^16, with rem carried in from the digits above i
RECURSIVE DivFrom(_, _, _, _)
DivFrom(a, d, i, rem) ==
    IF i = 0 THEN [q |-> <<>>, r |-> rem]
    ELSE LET cur == rem * Base + a[i]
             rest == DivFrom(a, d, i - 1, cur % d)
         IN  [q |-> Append(rest.q, cur \div d), r |-> rest.r]

\* Number of significant bits of a magnitude
RECURSIVE Bits(_)
Bits(n) == IF n = 0 THEN 0 ELSE 1 + Bits(n \div 2)
RECURSIVE BitLenFrom(_, _)
BitLenFrom(a, i) ==
    IF i = 0 THEN 0
    ELSE IF a[i] # 0 THEN LimbBits * (i - 1) + Bits(a[i])
    ELSE BitLenFrom(a, i - 1)
BitLen(a) == BitLenFrom(a, Limbs)

\* a with its low k bits cleared
ClearLow(a, k) ==
    LET F(i) == IF i <= k \div LimbBits THEN 0
                ELSE IF i = (k \div LimbBits) + 1
                     THEN a[i] - (a[i] % 2^(k % LimbBits))
                ELSE a[i]
    IN  <<F(1), F(2), F(3), F(4), F(5), F(6), F(7)>>

\* Bit k of a
BitAt(a, k) == (a[(k \div LimbBits) + 1] \div 2^(k % LimbBits)) % 2

\* -1, 0, 1 as the low k bits of a are below, equal to, above 2^(k-1)
HalfCmp(a, k) ==
    LET h == ((k - 1) \div LimbBits) + 1
        top == a[h] % 2^(((k - 1) % LimbBits) + 1)
        half == 2^((k - 1) % LimbBits)
    IN  IF top < half THEN -1
        ELSE IF top > half \/ \E i \in 1..(h - 1) : a[i] # 0 THEN 1
        ELSE 0

\* Rounding of a magnitude to 53 significant bits, ties to even
Round53(a) ==
    LET n == BitLen(a)
        drop == n - Mantissa
    IN  IF n <= Mantissa THEN a
        ELSE LET c == HalfCmp(a, drop)
             IN  IF c < 0 \/ (c = 0 /\ BitAt(a, drop) = 0) THEN ClearLow(a, drop)
                 ELSE MagAdd(ClearLow(a, drop), MagBit(drop))

\* A double from its sign and magnitude
MkFloat(neg, mag) == [neg |-> neg /\ mag # MagZero, mag |-> mag]

\* float(n) for an integer n
FloatOfInt(n) == MkFloat(n < 0, MagOfInt(IF n < 0 THEN -n ELSE n))

\* x < y, x <= y on doubles
FLess(x, y) ==
    IF x.neg # y.neg THEN x.neg
    ELSE IF x.neg THEN MagCmp(x.mag, y.mag) = 1
    ELSE MagCmp(x.mag, y.mag) = -1
FLeq(x, y) == ~FLess(y, x)

FNeg(x) == MkFloat(~x.neg, x.mag)

\* x + y and x - y, rounded
FAdd(x, y) ==
    IF x.mag = MagZero THEN y
    ELSE IF y.mag = MagZero THEN x
    ELSE IF x.neg = y.neg THEN MkFloat(x.neg, Round53(MagAdd(x.mag, y.mag)))
    ELSE IF MagCmp(x.mag, y.mag) >= 0
         THEN MkFloat(x.neg, Round53(MagSub(x.mag, y.mag)))
         ELSE MkFloat(y.neg, Round53(MagSub(y.mag, x.mag)))
FSub(x, y) == FAdd(x, FNeg(y))

\* x * c, rounded, for an integer c (a colour channel converted to double)
FMulInt(x, c) ==
    IF c = 0 \/ x.mag = MagZero THEN FloatOfInt(0)
    ELSE IF c < 0 THEN MkFloat(~x.neg, Round53(MagMul(x.mag, -c)))
    ELSE MkFloat(x.neg, Round53(MagMul(x.mag, c)))

\* n / d, rounded, for integers n and 0 < d <= 2^16.  The quotient is
\* developed to 2^-75; a remainder left over is recorded in its last bit,
\* which lies below the rounding position.
FDivInt(n, d) ==
    LET dv == DivFrom(MagOfInt(IF n < 0 THEN -n ELSE n), d, Limbs, 0)
        q == IF dv.r # 0 /\ dv.q[1] % 2 = 0
             THEN [dv.q EXCEPT ![1] = dv.q[1] + 1]
             ELSE dv.q
    IN  MkFloat(n < 0, Round53(q))

\* np.clip(x, lo, hi) of a double between two integers
FClip(x, lo, hi) ==
    LET flo == FloatOfInt(lo)
        fhi == FloatOfInt(hi)
    IN  IF FLess(x, flo) THEN flo ELSE IF FLess(fhi, x) THEN fhi ELSE x

\* The integer part of a double, truncated towards zero
FTrunc(x) ==
    LET n == x.mag[FracLimbs + 1] + Base * x.mag[FracLimbs + 2]
    IN  IF x.neg THEN -n ELSE n

(***************************************************************************)
(* utils.py                                                                *)
(***************************************************************************)

\* c0 + c1 + c2 on one channel.  Rows of a uint8 array add modulo 256;
\* wider (synthetic) colours add without wrapping.
ColorSum(c0, c1, c2, dtype, ch) ==
    IF dtype = "uint8" THEN (c0[ch] + c1[ch] + c2[ch]) % 256
    ELSE c0[ch] + c1[ch] + c2[ch]

\* A plausible slip: the weights of c1 and c2 exchanged.
barycentric_interpolate_swapped(v0, v1, v2, c0, c1, c2, p2, dtype) ==
    LET v0v1 == Sub(v1, v0)
        v0v2 == Sub(v2, v0)
        v0p == Sub(p2, Twice(v0))
        d00 == Dot(v0v1, v0v1)
        d01 == Dot(v0v1, v0v2)
        d11 == Dot(v0v2, v0v2)
        d20 == Dot(v0p, v0v1)
        d21 == Dot(v0p, v0v2)
        denom == d00 * d11 - d01 * d01
        v_ == FDivInt(d11 * d20 - d01 * d21, 2 * denom)
        w_ == FDivInt(d00 * d21 - d01 * d20, 2 * denom)
        u == FClip(FSub(FSub(FloatOfInt(1), v_), w_), 0, 1)
        v == FClip(v_, 0, 1)
        w == FClip(w_, 0, 1)
    IN  IF denom = 0
        THEN [ch \in 1..4 |-> FDivInt(ColorSum(c0, c1, c2, dtype, ch), 3)]
        ELSE [ch \in 1..4 |->
                FClip(FAdd(FAdd(FMulInt(u, c0[ch]), FMulInt(w, c1[ch])),
                           FMulInt(v, c2[ch])), 0, 255)]

\* barycentric_interpolate(v0, v1, v2, c0, c1, c2, p), p given doubled.
\* The points are integers and p a multiple of 0.5, so the dot products and
\* the two numerators are exact; d20 and d21 carry the factor 2 of p2,
\* hence v = fl(vn / (2 * denom)) and w = fl(wn / (2 * denom)).  denom is
\* an integer, so abs(denom) < 1e-8 is denom = 0, and denom >= 0 by
\* Cauchy-Schwarz.  Every later operation rounds as the code's does:
\* u = fl(fl(1.0 - v) - w), the products, and the two additions left to
\* right.  Result: per channel a double.
barycentric_interpolate(v0, v1, v2, c0, c1, c2, p2, dtype) ==
    LET v0v1 == Sub(v1, v0)
        v0v2 == Sub(v2, v0)
        v0p == Sub(p2, Twice(v0))
        d00 == Dot(v0v1, v0v1)
        d01 == Dot(v0v1, v0v2)
        d11 == Dot(v0v2, v0v2)
        d20 == Dot(v0p, v0v1)
        d21 == Dot(v0p, v0v2)
        denom == d00 * d11 - d01 * d01
        v_ == FDivInt(d11 * d20 - d01 * d21, 2 * denom)
        w_ == FDivInt(d00 * d21 - d01 * d20, 2 * denom)
        u == FClip(FSub(FSub(FloatOfInt(1), v_), w_), 0, 1)
        v == FClip(v_, 0, 1)
        w == FClip(w_, 0, 1)
    IN  IF denom = 0
        THEN [ch \in 1..4 |-> FDivInt(ColorSum(c0, c1, c2, dtype, ch), 3)]
        ELSE [ch \in 1..4 |->
                FClip(FAdd(FAdd(FMulInt(u, c0[ch]), FMulInt(v, c1[ch])),
                           FMulInt(w, c2[ch])), 0, 255)]

\* sign(p1, p2, p3) of is_point_in_triangle, times 2, with p1 given doubled
sign(p1, p2, p3) ==
    (p1[1] - 2 * p3[1]) * (p2[2] - p3[2]) - (p2[1] - p3[1]) * (p1[2] - 2 * p3[2])

\* is_point_in_triangle(p, v0, v1, v2), p given doubled
is_point_in_triangle(p2, v0, v1, v2) ==
    LET d1 == sign(p2, v0, v1)
        d2 == sign(p2, v1, v2)
        d3 == sign(p2, v2, v0)
        has_neg == (d1 < 0) \/ (d2 < 0) \/ (d3 < 0)
        has_pos == (d1 > 0) \/ (d2 > 0) \/ (d3 > 0)
    IN  ~(has_neg /\ has_pos)

(***************************************************************************)
(* converter.py: the rasterization loop of convert                         *)
(***************************************************************************)

\* The texel centre (x + 0.5, y + 0.5), doubled
Centre(x, y) == <<2 * x + 1, 2 * y + 1>>

\* (uv * (self.buffer_size - 1)).astype(int), uv = <<nx, ny>> / UVDen
MapUV(uv, bs) == <<Trunc(uv[1] * (bs - 1), UVDen), Trunc(uv[2] * (bs - 1), UVDen)>>

\* The three mapped points of a face
Mapped(face, bs) == [i \in 1..3 |-> MapUV(face.uv[i], bs)]

\* A plausible slip: the upper limits not clamped to the buffer.
BBox_unclamped(m, bs) ==
    [min_x |-> Max2(Min3(m[1][1], m[2][1], m[3][1]), 0),
     max_x |-> Max3(m[1][1], m[2][1], m[3][1]),
     min_y |-> Max2(Min3(m[1][2], m[2][2], m[3][2]), 0),
     max_y |-> Max3(m[1][2], m[2][2], m[3][2])]

\* min_x, max_x, min_y, max_y of the mapped points m, clamped to the buffer
BBox(m, bs) ==
    [min_x |-> Max2(Min3(m[1][1], m[2][1], m[3][1]), 0),
     max_x |-> Min2(Max3(m[1][1], m[2][1], m[3][1]), bs - 1),
     min_y |-> Max2(Min3(m[1][2], m[2][2], m[3][2]), 0),
     max_y |-> Min2(Max3(m[1][2], m[2][2], m[3][2]), bs - 1)]

\* The (x, y) the two range loops visit and is_point_in_triangle accepts
WriteSet(face, bs) ==
    LET m == Mapped(face, bs)
        bb == BBox(m, bs)
    IN  {t \in (bb.min_x .. bb.max_x) \X (bb.min_y .. bb.max_y) :
            is_point_in_triangle(Centre(t[1], t[2]), m[1], m[2], m[3])}

\* astype(np.uint8) of the double q: truncation, then the low 8 bits
AsUint8(q) == FTrunc(q) % 256

\* A plausible slip: the np.clip before the cast left out.
StoredChannel_noclip(q) == AsUint8(q)

\* np.clip(color, 0, 255).astype(np.uint8) on one channel
StoredChannel(q) == AsUint8(FClip(q, 0, 255))

\* The colour barycentric_interpolate returns for the texel (x, y) of a face
FaceColor(face, dtype, bs, x, y) ==
    LET m == Mapped(face, bs)
    IN  barycentric_interpolate(m[1], m[2], m[3],
                                face.c[1], face.c[2], face.c[3],
                                Centre(x, y), dtype)

\* The colours barycentric_interpolate returns in the two range loops of
\* one face: the pairs of an (x, y) and the colour computed for it
FaceColors(face, dtype, bs) ==
    {<<t, FaceColor(face, dtype, bs, t[1], t[2])>> : t \in WriteSet(face, bs)}

\* The colour computed for t among the pairs cols
ColorAt(cols, t) == (CHOOSE p \in cols : p[1] = t)[2]

\* np.clip(color, 0, 255).astype(np.uint8): what the loop assigns to
\* self.texture_buffer[y, x]
StoredColor(color) ==
    <<StoredChannel(color[1]), StoredChannel(color[2]),
      StoredChannel(color[3]), StoredChannel(color[4])>>

\* A plausible slip: a texel already covered is not written again.
WriteTexel_keepfirst(old, new) == IF old[4] = 0 THEN new ELSE old

\* self.texture_buffer[y, x] = ... : the assignment replaces the old texel
WriteTexel(old, new) == new

\* An index numpy accepts on an axis of length bs
ValidIndex(i, bs) == -bs <= i /\ i < bs

\* The (x, y) of W that are not indices of a buffer of side bs (IndexError)
OutOfBuffer(W, bs) == {t \in W : ~ValidIndex(t[1], bs) \/ ~ValidIndex(t[2], bs)}

\* The buffer after the two range loops of one face, cols being the
\* colours computed in them.  Both loops start at max(.., 0), so an index
\* is never negative and (y, x) denotes row y, column x.
RasterizeFace(buf, cols, bs) ==
    [y \in 0..(bs - 1) |-> [x \in 0..(bs - 1) |->
        IF \E p \in cols : p[1] = <<x, y>>
        THEN WriteTexel(buf[y][x], StoredColor(ColorAt(cols, <<x, y>>)))
        ELSE buf[y][x]]]

\* np.zeros((buffer_size, buffer_size, 4), dtype=np.uint8)
Zeros(bs) == [y \in 0..(bs - 1) |-> [x \in 0..(bs - 1) |-> <<0, 0, 0, 0>>]]

(***************************************************************************)
(* converter.py: output path, mesh check, inpainting, filtering            *)
(***************************************************************************)

\* Values: None, a path (stem + suffix), or a raised exception
PyNone == [kind |-> "None", stem |-> "", suffix |-> ""]
MkPath(stem, suffix) == [kind |-> "path", stem |-> stem, suffix |-> suffix]
Raised(exc) == [kind |-> "raise", stem |-> exc, suffix |-> ""]
Pending == [kind |-> "pending", stem |-> "", suffix |-> ""]

\* str.lower() on the suffixes the model uses
Lower(suffix) ==
    CASE suffix = ".GLB" -> ".glb"
      [] suffix = ".OBJ" -> ".obj"
      [] OTHER -> suffix

\* Path.with_suffix
with_suffix(path, suffix) == MkPath(path.stem, suffix)

\* warnings.warn(message, category): the category must be a Warning
\* subclass, otherwise warn raises TypeError.  Line 127 passes a str.
WarnAccepts(category) == category \in {"default", "UserWarning"}

\* Converter._validate_output_path
validate_output_path(output_path) ==
    IF output_path.kind = "None" THEN MkPath("output", ".glb")
    ELSE IF Lower(output_path.suffix) # ".glb"
         THEN IF WarnAccepts("str")
              THEN with_suffix(output_path, ".glb")
              ELSE Raised("TypeError")
         ELSE output_path

\* A plausible slip: the check left out.
HasVertexColors_always(m) == TRUE

\* hasattr(mesh, "visual") and hasattr(mesh.visual, "vertex_colors")
HasVertexColors(m) == m.has_visual /\ m.has_vertex_colors

\* The RGB triples cv2.inpaint can draw on: those of the unmasked texels,
\* or black when every texel is masked
Donors(buf, bs) ==
    LET rgb == {<<buf[t[2]][t[1]][1], buf[t[2]][t[1]][2], buf[t[2]][t[1]][3]>> :
                 t \in {s \in (0..(bs - 1)) \X (0..(bs - 1)) : buf[s[2]][s[1]][4] # 0}}
    IN  IF rgb = {} THEN {<<0, 0, 0>>} ELSE rgb

\* A plausible slip: the alpha channel of the buffer carried over instead of
\* the one COLOR_BGR2BGRA adds.
inpaint_texture_keepalpha(buf, bs, fill) ==
    [y \in 0..(bs - 1) |-> [x \in 0..(bs - 1) |->
        LET src == buf[bs - 1 - y][x]
        IN  IF src[4] = 0 THEN <<fill[1], fill[2], fill[3], src[4]>>
            ELSE src]]

\* Converter._inpaint_texture: the mask is alpha == 0; COLOR_BGRA2BGR drops
\* the alpha channel; cv2.inpaint replaces the masked texels (by fill) and
\* keeps the others; COLOR_BGR2BGRA adds an alpha channel of 255; [::-1]
\* reverses the rows.
inpaint_texture(buf, bs, fill) ==
    [y \in 0..(bs - 1) |-> [x \in 0..(bs - 1) |->
        LET src == buf[bs - 1 - y][x]
            masked == (src[4] = 0)
            bgr == IF masked THEN fill ELSE <<src[1], src[2], src[3]>>
        IN  <<bgr[1], bgr[2], bgr[3], 255>>]]

\* Image.fromarray(self.texture_buffer): an image of the buffer's side
fromarray(bs) == [size |-> bs, median |-> 0, blur |-> 0]

\* Converter._filter_and_resize_texture: median filter, Gaussian blur,
\* Lanczos resize to texture_size (pixel values are not modelled)
filter_and_resize_texture(img, ts, med, blur) ==
    [size |-> ts, median |-> med, blur |-> blur]

NoTexture == [size |-> 0, median |-> 0, blur |-> 0]

(***************************************************************************)
(* Inputs                                                                  *)
(***************************************************************************)

\* Vertex colours (RGBA).  Clear is fully transparent; Hot and Cold are
\* synthetic colours with channels outside 0..255.
Red == <<255, 0, 0, 255>>
Green == <<0, 255, 0, 255>>
Blue == <<0, 0, 255, 255>>
Clear == <<200, 200, 200, 0>>
Hot == <<300, -20, 128, 255>>
Cold == <<300, -20, 0, 255>>

\* UV coordinates as numerators over UVDen: -1 and UVDen + 1 lie outside
\* [0, 1], 0 and UVDen are its ends, 1 lies inside
UVRange == {-1, 0, 1, UVDen, UVDen + 1}
UVPoints == UVRange \X UVRange
InnerPoints == {0, 1, UVDen} \X {0, 1, UVDen}

MkMesh(dtype, faces) ==
    [has_visual |-> TRUE, has_vertex_colors |-> TRUE, dtype |-> dtype, faces |-> faces]
NoMesh ==
    [has_visual |-> FALSE, has_vertex_colors |-> FALSE, dtype |-> "uint8", faces |-> <<>>]
MkFace(uv, c) == [uv |-> uv, c |-> c]

\* Colourings of one face, with the dtype of the colour array
Colorings ==
    {[dtype |-> "uint8", c |-> <<Red, Green, Blue>>],
     [dtype |-> "uint8", c |-> <<Clear, Clear, Clear>>],
     [dtype |-> "int64", c |-> <<Hot, Hot, Cold>>]}

\* Triples of points of P in lexicographic order: the box and the inside
\* test do not depend on the order of the vertices, and the direct calls of
\* the utils functions cover every order.
LexLeq(a, b) == a[1] < b[1] \/ (a[1] = b[1] /\ a[2] <= b[2])
LexTriples(P) == {t \in P \X P \X P : LexLeq(t[1], t[2]) /\ LexLeq(t[2], t[3])}

\* One face: any three UV points, malformed ones included, with the
\* colours red, green, blue; and any three UV points within [0, 1] with
\* each colouring
SingleFaceMeshes ==
    {MkMesh("uint8", <<MkFace(uv, <<Red, Green, Blue>>)>>) : uv \in LexTriples(UVPoints)}
    \cup {MkMesh(col.dtype, <<MkFace(uv, col.c)>>) :
            uv \in LexTriples(InnerPoints), col \in Colorings}

\* Faces over the corners of the UV square with the first vertex at the
\* origin: two overlapping triangles and two degenerate faces, each in two
\* colourings
CornerFaces ==
    {MkFace(<<(<<0, 0>>), b, c>>, col) :
        b \in {<<0, 0>>, <<UVDen, 0>>}, c \in {<<0, UVDen>>, <<UVDen, UVDen>>},
        col \in {<<Red, Red, Red>>, <<Blue, Green, Green>>}}

RECURSIVE SeqsOfLen(_, _)
SeqsOfLen(S, n) ==
    IF n = 0 THEN {<<>>}
    ELSE {Append(q, e) : q \in SeqsOfLen(S, n - 1), e \in S}

MultiFaceMeshes ==
    UNION {{MkMesh("uint8", fs) : fs \in SeqsOfLen(CornerFaces, n)} : n \in 2..MaxFaces}

\* Meshes of the rasterization specification
CoreMeshes == SingleFaceMeshes \cup MultiFaceMeshes

\* Meshes of the lifecycle specification: without vertex colours, and with
\* one face (a triangle, a face collapsed to a point, and a face collapsed
\* to a vertical line, which covers no texel centre)
LifeFaces ==
    {MkFace(uv, c) :
        uv \in {<<(<<0, 0>>), (<<UVDen, 0>>), (<<0, UVDen>>)>>,
                <<(<<0, 0>>), (<<0, 0>>), (<<0, 0>>)>>,
                <<(<<0, 0>>), (<<0, 0>>), (<<0, UVDen>>)>>},
        c \in {<<Red, Green, Blue>>, <<Clear, Clear, Clear>>}}
LifeMeshes ==
    {NoMesh,
     [has_visual |-> TRUE, has_vertex_colors |-> FALSE, dtype |-> "uint8", faces |-> <<>>]}
    \cup {MkMesh("uint8", <<f>>) : f \in LifeFaces}

\* output_mesh_path arguments
Paths ==
    {PyNone, MkPath("out", ".glb"), MkPath("out", ".GLB"),
     MkPath("out", ".obj"), MkPath("out", "")}

\* Inputs of direct calls of the utils functions: integer points, an
\* 8-bit colouring, and p either one of the three points or the centre of
\* the texel at the second
GridPoints == (0..InterpGrid) \X (0..InterpGrid)
Probes == {<<1, "vertex">>, <<2, "vertex">>, <<3, "vertex">>, <<2, "centre">>}
ProbePoint(v, k) ==
    IF k[2] = "vertex" THEN Twice(v[k[1]]) ELSE Centre(v[k[1]][1], v[k[1]][2])
UtilsArgs ==
    {[v |-> v, c |-> col.c, dtype |-> col.dtype, p2 |-> ProbePoint(v, k)] :
        v \in GridPoints \X GridPoints \X GridPoints,
        col \in {x \in Colorings : x.dtype = "uint8"}, k \in Probes}
NoArgs == [v |-> <<>>, c |-> <<>>, dtype |-> "", p2 |-> <<>>]
NoRet == [color |-> <<>>, inside |-> FALSE]

(***************************************************************************)
(* Initial states                                                          *)
(***************************************************************************)

\* Converter.__init__(texture_size, upscale_factor)
ConverterInit(ts, up) ==
    /\ texture_size = ts
    /\ upscaling = up
    /\ buffer_size = ts * up
    /\ median_size = DefaultMedian
    /\ blur_radius = DefaultBlur
    /\ texture_buffer = Zeros(ts * up)
    /\ texture = NoTexture
    /\ pc = "idle"
    /\ arg_path = PyNone
    /\ output_mesh_path = PyNone
    /\ mesh = NoMesh
    /\ fi = 0
    /\ written = <<>>
    /\ colors = <<>>
    /\ result = Pending
    /\ log = <<>>
    /\ calls = 0
    /\ entry_buffer = Zeros(ts * up)
    /\ args = NoArgs
    /\ ret = NoRet

Init == \E ts \in 1..MaxTextureSize : ConverterInit(ts, DefaultUpscale)

\* A direct call of the utils functions is about to be made
UtilsInit ==
    /\ texture_size = 1
    /\ upscaling = 1
    /\ buffer_size = 1
    /\ median_size = DefaultMedian
    /\ blur_radius = DefaultBlur
    /\ texture_buffer = Zeros(1)
    /\ texture = NoTexture
    /\ pc = "utils"
    /\ arg_path = PyNone
    /\ output_mesh_path = PyNone
    /\ mesh = NoMesh
    /\ fi = 0
    /\ written = <<>>
    /\ colors = <<>>
    /\ result = Pending
    /\ log = <<>>
    /\ calls = 0
    /\ entry_buffer = Zeros(1)
    /\ args \in UtilsArgs
    /\ ret = NoRet

InitCore ==
    \/ ConverterInit(MaxTextureSize, DefaultUpscale)
    \/ UtilsInit

(***************************************************************************)
(* convert, step by step                                                   *)
(***************************************************************************)

\* Lines 49-51: the output path is rejected (warnings.warn raises)
ConvertPathError(paths) ==
    /\ pc = "idle"
    /\ calls < MaxCalls
    /\ \E p \in paths :
        /\ validate_output_path(p).kind = "raise"
        /\ arg_path' = p
        /\ result' = validate_output_path(p)
    /\ calls' = calls + 1
    /\ entry_buffer' = texture_buffer
    /\ output_mesh_path' = PyNone
    /\ mesh' = NoMesh
    /\ fi' = 0
    /\ written' = <<>>
    /\ colors' = <<>>
    /\ log' = <<>>
    /\ UNCHANGED <<selfCfg, texture_buffer, texture, pc, args, ret>>

\* Lines 49-54: the mesh has no vertex colours: warn and return None
ConvertNoColors(paths, meshes) ==
    /\ pc = "idle"
    /\ calls < MaxCalls
    /\ \E p \in paths, m \in meshes :
        /\ validate_output_path(p).kind = "path"
        /\ ~HasVertexColors(m)
        /\ arg_path' = p
        /\ output_mesh_path' = validate_output_path(p)
        /\ mesh' = m
    /\ calls' = calls + 1
    /\ entry_buffer' = texture_buffer
    /\ fi' = 0
    /\ written' = <<>>
    /\ colors' = <<>>
    /\ log' = <<"load", "warn">>
    /\ result' = PyNone
    /\ UNCHANGED <<selfCfg, texture_buffer, texture, pc, args, ret>>

\* Lines 49-64: the path is valid, the mesh is loaded and unwrapped
\* (xatlas.parametrize supplies the UVs); the face loop is about to start
ConvertStart(paths, meshes) ==
    /\ pc = "idle"
    /\ calls < MaxCalls
    /\ \E p \in paths, m \in meshes :
        /\ validate_output_path(p).kind = "path"
        /\ HasVertexColors(m)
        /\ arg_path' = p
        /\ output_mesh_path' = validate_output_path(p)
        /\ mesh' = m
    /\ calls' = calls + 1
    /\ entry_buffer' = texture_buffer
    /\ fi' = 0
    /\ written' = <<>>
    /\ colors' = <<>>
    /\ log' = <<"load", "unwrap">>
    /\ result' = Pending
    /\ pc' = "raster"
    /\ UNCHANGED <<selfCfg, texture_buffer, texture, args, ret>>

\* Lines 66-86: one iteration of "for face in mesh.faces"
RasterFace ==
    /\ pc = "raster"
    /\ fi < Len(mesh.faces)
    /\ LET face == mesh.faces[fi + 1]
           W == WriteSet(face, buffer_size)
           cols == FaceColors(face, mesh.dtype, buffer_size)
       IN  /\ written' = Append(written, W)
           /\ IF OutOfBuffer(W, buffer_size) = {}
              THEN /\ colors' = Append(colors, cols)
                   /\ texture_buffer' = RasterizeFace(texture_buffer, colors'[fi + 1], buffer_size)
                   /\ fi' = fi + 1
                   /\ UNCHANGED <<pc, result>>
              ELSE /\ pc' = "idle"
                   /\ result' = Raised("IndexError")
                   /\ UNCHANGED <<texture_buffer, fi, colors>>
    /\ UNCHANGED <<selfCfg, texture, arg_path, output_mesh_path, mesh, log, calls,
                   entry_buffer, args, ret>>

\* Lines 88-90: self._inpaint_texture(); self.texture = Image.fromarray(..).
\* cv2.inpaint is a library routine: the colour it gives the masked texels
\* is left open among the colours of the unmasked ones.
Inpaint ==
    /\ pc = "raster"
    /\ fi = Len(mesh.faces)
    /\ \E fill \in Donors(texture_buffer, buffer_size) :
        texture_buffer' = inpaint_texture(texture_buffer, buffer_size, fill)
    /\ texture' = fromarray(buffer_size)
    /\ log' = Append(log, "inpaint")
    /\ pc' = "filter"
    /\ UNCHANGED <<selfCfg, arg_path, output_mesh_path, mesh, fi, written, colors, result,
                   calls, entry_buffer, args, ret>>

\* Line 91: self._filter_and_resize_texture()
FilterAndResize ==
    /\ pc = "filter"
    /\ texture' = filter_and_resize_texture(texture, texture_size, median_size, blur_radius)
    /\ log' = Append(log, "filter")
    /\ pc' = "export"
    /\ UNCHANGED <<selfCfg, texture_buffer, arg_path, output_mesh_path, mesh, fi,
                   written, colors, result, calls, entry_buffer, args, ret>>

\* Lines 93-106: material, mesh.export(output_mesh_path), return the path
Export ==
    /\ pc = "export"
    /\ log' = Append(log, "export")
    /\ result' = output_mesh_path
    /\ pc' = "idle"
    /\ UNCHANGED <<selfCfg, texture_buffer, texture, arg_path, output_mesh_path, mesh,
                   fi, written, colors, calls, entry_buffer, args, ret>>

\* A direct call of barycentric_interpolate and is_point_in_triangle
UtilsCall ==
    /\ pc = "utils"
    /\ ret' = [color |-> barycentric_interpolate(args.v[1], args.v[2], args.v[3],
                                                 args.c[1], args.c[2], args.c[3],
                                                 args.p2, args.dtype),
               inside |-> is_point_in_triangle(args.p2, args.v[1], args.v[2], args.v[3])]
    /\ pc' = "returned"
    /\ UNCHANGED <<selfCfg, texture_buffer, texture, arg_path, output_mesh_path, mesh,
                   fi, written, colors, result, log, calls, entry_buffer, args>>

\* The whole life of one Converter: any number of convert calls
Next ==
    \/ ConvertPathError(Paths)
    \/ ConvertNoColors(Paths, LifeMeshes)
    \/ ConvertStart(Paths, LifeMeshes)
    \/ RasterFace
    \/ Inpaint
    \/ FilterAndResize
    \/ Export

Spec == Init /\ [][Next]_vars

\* One convert call up to the end of the face loop on any mesh, and direct
\* calls of the utils functions
NextCore ==
    \/ ConvertStart({PyNone}, CoreMeshes)
    \/ RasterFace
    \/ UtilsCall

SpecCore == InitCore /\ [][NextCore]_vars

(***************************************************************************)
(* Properties                                                              *)
(***************************************************************************)

Texels == (0..(buffer_size - 1)) \X (0..(buffer_size - 1))

\* Three points on one line (or coinciding): the cross product vanishes
Collinear(v) ==
    (v[2][1] - v[1][1]) * (v[3][2] - v[1][2]) = (v[3][1] - v[1][1]) * (v[2][2] - v[1][2])

\* All UV coordinates of a face within [0, 1]
WellFormedUV(face) ==
    \A i \in 1..3 : \A k \in 1..2 : 0 <= face.uv[i][k] /\ face.uv[i][k] <= UVDen

\* All channels of the three colours within 0..255
EightBit(c) == \A i \in 1..3 : \A ch \in 1..4 : 0 <= c[i][ch] /\ c[i][ch] <= 255

\* (x, y) within the box spanned by the mapped points m
InBox(m, x, y) ==
    /\ Min3(m[1][1], m[2][1], m[3][1]) <= x /\ x <= Max3(m[1][1], m[2][1], m[3][1])
    /\ Min3(m[1][2], m[2][2], m[3][2]) <= y /\ y <= Max3(m[1][2], m[2][2], m[3][2])

\* The face loop of the current call has finished
LoopDone == pc = "raster" /\ fi = Len(mesh.faces)

Greatest(S) == CHOOSE i \in S : \A j \in S : j <= i

\* C1: an output path whose extension is missing or is not '.glb' never
\* makes convert fail: the call goes on with the extension replaced by
\* '.glb'; None gives 'output.glb' and a '.glb' path is kept as it is.
C1_WrongExtensionCorrected ==
    calls > 0 =>
        /\ result.kind # "raise"
        /\ arg_path.kind = "None" => output_mesh_path = MkPath("output", ".glb")
        /\ (arg_path.kind = "path" /\ Lower(arg_path.suffix) = ".glb")
              => output_mesh_path = arg_path
        /\ (arg_path.kind = "path" /\ Lower(arg_path.suffix) # ".glb")
              => output_mesh_path = MkPath(arg_path.stem, ".glb")

\* C2: every convert call starts its face loop on an all-zero buffer.
C2_FreshBufferEachCall ==
    (pc = "raster" /\ fi = 0) => texture_buffer = Zeros(buffer_size)

\* C3: for collinear or coincident points and 8-bit colours,
\* barycentric_interpolate returns on every channel the arithmetic mean
\* (c0 + c1 + c2) / 3 of the integers (the double nearest to it).
C3_DegenerateIsTrueMean ==
    (pc = "returned" /\ Collinear(args.v) /\ args.dtype = "uint8" /\ EightBit(args.c))
        => \A ch \in 1..4 :
              ret.color[ch]
                = FDivInt(args.c[1][ch] + args.c[2][ch] + args.c[3][ch], 3)

\* C4: when the loaded mesh has no vertex colours and the output path is
\* absent or ends in '.glb', convert warns and returns None at once: no
\* unwrapping, rasterization, inpainting, filtering or export happens and
\* the texture buffer is what it was when the call started.
C4_NoColorsAborts ==
    (/\ calls > 0
     /\ ~(mesh.has_visual /\ mesh.has_vertex_colors)
     /\ (arg_path.kind = "None" \/ Lower(arg_path.suffix) = ".glb"))
        => /\ pc = "idle"
           /\ result = PyNone
           /\ log = <<"load", "warn">>
           /\ texture_buffer = entry_buffer

C4_Witness ==
    /\ calls = 2
    /\ mesh.has_visual /\ ~mesh.has_vertex_colors
    /\ arg_path = MkPath("out", ".GLB")
    /\ result = PyNone
    /\ texture_buffer # Zeros(buffer_size)

\* C5: after _inpaint_texture no texel has alpha 0, and the buffer is still
\* buffer_size x buffer_size x 4.
C5_InpaintLeavesNoHole ==
    pc = "filter" =>
        /\ DOMAIN texture_buffer = 0..(buffer_size - 1)
        /\ \A y \in 0..(buffer_size - 1) :
              /\ DOMAIN texture_buffer[y] = 0..(buffer_size - 1)
              /\ \A x \in 0..(buffer_size - 1) :
                    /\ Len(texture_buffer[y][x]) = 4
                    /\ texture_buffer[y][x][4] # 0

\* The loop wrote some texels and left others uncovered
C5_Witness ==
    /\ pc = "filter"
    /\ Len(mesh.faces) = 1
    /\ written[1] # {}
    /\ Cardinality(written[1]) < buffer_size * buffer_size
    /\ mesh.faces[1].c = <<Red, Green, Blue>>

\* C6: for non-degenerate faces with UVs in [0, 1] and 8-bit RGBA colours,
\* after the face loop every texel whose centre lies in or on the mapped
\* triangle of some face has a non-zero alpha.
C6_CoveredTexelsMarked ==
    (/\ LoopDone
     /\ mesh.dtype = "uint8"
     /\ \A i \in 1..Len(mesh.faces) :
           /\ WellFormedUV(mesh.faces[i])
           /\ EightBit(mesh.faces[i].c)
           /\ ~Collinear(Mapped(mesh.faces[i], buffer_size)))
        => \A t \in Texels :
              (\E i \in 1..Len(mesh.faces) :
                  LET m == Mapped(mesh.faces[i], buffer_size)
                  IN  is_point_in_triangle(Centre(t[1], t[2]), m[1], m[2], m[3]))
                => texture_buffer[t[2]][t[1]][4] # 0

\* C7 as stated: for one non-degenerate triangle with three distinct
\* colours rasterized into an empty buffer, the texel at each vertex's own
\* mapped coordinate is written and holds that vertex's colour within one
\* unit per channel.
C7_VertexTexelHoldsVertexColor ==
    (/\ LoopDone
     /\ Len(mesh.faces) = 1
     /\ entry_buffer = Zeros(buffer_size)
     /\ WellFormedUV(mesh.faces[1])
     /\ EightBit(mesh.faces[1].c)
     /\ Cardinality({mesh.faces[1].c[i] : i \in 1..3}) = 3
     /\ ~Collinear(Mapped(mesh.faces[1], buffer_size)))
        => \A i \in 1..3 :
              LET t == Mapped(mesh.faces[1], buffer_size)[i]
              IN  /\ t \in written[1]
                  /\ \A ch \in 1..4 :
                        /\ texture_buffer[t[2]][t[1]][ch] - mesh.faces[1].c[i][ch] <= 1
                        /\ mesh.faces[1].c[i][ch] - texture_buffer[t[2]][t[1]][ch] <= 1

\* C7 amended: for a non-degenerate triangle with 8-bit colours,
\* barycentric_interpolate evaluated at a vertex's own mapped point returns
\* exactly that vertex's colour.
C7_InterpolationAtVertex ==
    (pc = "returned" /\ ~Collinear(args.v) /\ EightBit(args.c))
        => \A i \in 1..3 :
              args.p2 = Twice(args.v[i])
                => \A ch \in 1..4 : ret.color[ch] = FloatOfInt(args.c[i][ch])

C7_Witness ==
    /\ pc = "returned"
    /\ ~Collinear(args.v)
    /\ args.c = <<Red, Green, Blue>>
    /\ args.p2 = Twice(args.v[2])
    /\ ret.color[2] = FloatOfInt(255)

\* C8: whatever the colours (also outside 0..255) and on both paths of
\* barycentric_interpolate, the channel the rasterizer stores is the
\* interpolated value clamped to [0, 255] and truncated, hence in 0..255.
C8_StoredIsClampedTruncated ==
    (pc = "raster" /\ fi >= 1) =>
        \A t \in written[fi] : \A ch \in 1..4 :
            LET q == ColorAt(colors[fi], t)[ch]
                s == texture_buffer[t[2]][t[1]][ch]
            IN  /\ 0 <= s /\ s <= 255
                /\ FLeq(q, FloatOfInt(0)) => s = 0
                /\ FLeq(FloatOfInt(255), q) => s = 255
                /\ (FLess(FloatOfInt(0), q) /\ FLess(q, FloatOfInt(255)))
                      => (FLeq(FloatOfInt(s), q) /\ FLess(q, FloatOfInt(s + 1)))

\* A degenerate face with synthetic colours whose mean exceeds 255 and
\* falls below 0 has been written
C8_Witness ==
    /\ pc = "raster" /\ fi = 1
    /\ mesh.dtype = "int64"
    /\ Collinear(Mapped(mesh.faces[1], buffer_size))
    /\ \E t \in written[1] :
          /\ ColorAt(colors[1], t)[1] = FloatOfInt(300)
          /\ texture_buffer[t[2]][t[1]][1] = 255
          /\ texture_buffer[t[2]][t[1]][2] = 0

\* The faces, by index, that accept the centre of texel t
Accepting(t) ==
    {i \in 1..Len(mesh.faces) :
        LET m == Mapped(mesh.faces[i], buffer_size)
        IN  is_point_in_triangle(Centre(t[1], t[2]), m[1], m[2], m[3])}

\* Those of them whose bounding box contains t
AcceptingInBox(t) ==
    {i \in Accepting(t) : InBox(Mapped(mesh.faces[i], buffer_size), t[1], t[2])}

\* C9 as stated: after the face loop a texel whose centre
\* is_point_in_triangle accepts for some face holds the colour of the last
\* such face, and any other texel keeps its value.
C9_LastAcceptingFaceWins ==
    LoopDone =>
        \A t \in Texels :
            IF Accepting(t) # {}
            THEN texture_buffer[t[2]][t[1]]
                   = StoredColor(FaceColor(mesh.faces[Greatest(Accepting(t))],
                                           mesh.dtype, buffer_size, t[1], t[2]))
            ELSE texture_buffer[t[2]][t[1]] = entry_buffer[t[2]][t[1]]

\* C9 amended: after the face loop a texel that lies in the bounding box
\* of some face whose inside test accepts its centre holds the colour of
\* the last such face, and any other texel keeps its value.
C9_LastWritingFaceWins ==
    LoopDone =>
        \A t \in Texels :
            IF AcceptingInBox(t) # {}
            THEN texture_buffer[t[2]][t[1]]
                   = StoredColor(ColorAt(colors[Greatest(AcceptingInBox(t))], t))
            ELSE texture_buffer[t[2]][t[1]] = entry_buffer[t[2]][t[1]]

\* Two faces wrote one texel with different colours
C9_Witness ==
    /\ LoopDone
    /\ Len(mesh.faces) = 2
    /\ \E t \in written[1] \cap written[2] :
          /\ StoredColor(ColorAt(colors[1], t)) # StoredColor(ColorAt(colors[2], t))
          /\ texture_buffer[t[2]][t[1]] = StoredColor(ColorAt(colors[2], t))

\* The box of the mapped points misses the buffer altogether
BoxOutside(m, bs) ==
    \/ Max3(m[1][1], m[2][1], m[3][1]) < 0
    \/ Min3(m[1][1], m[2][1], m[3][1]) > bs - 1
    \/ Max3(m[1][2], m[2][2], m[3][2]) < 0
    \/ Min3(m[1][2], m[2][2], m[3][2]) > bs - 1

\* C10: for any UVs, malformed ones included, every index the face loop
\* writes lies in the buffer and in the bounding box of the face's mapped
\* points; a face whose box misses the buffer writes nothing; no
\* IndexError is raised.
C10_WritesStayInBuffer ==
    /\ result # Raised("IndexError")
    /\ \A i \in 1..Len(written) :
          LET m == Mapped(mesh.faces[i], buffer_size)
          IN  /\ \A t \in written[i] :
                    /\ 0 <= t[1] /\ t[1] <= buffer_size - 1
                    /\ 0 <= t[2] /\ t[2] <= buffer_size - 1
                    /\ InBox(m, t[1], t[2])
              /\ BoxOutside(m, buffer_size) => written[i] = {}

\* A face with a vertex mapped beyond the buffer wrote into the buffer
C10_Witness ==
    /\ pc = "raster" /\ fi = 1
    /\ ~WellFormedUV(mesh.faces[1])
    /\ \E i \in 1..3 :
          Mapped(mesh.faces[1], buffer_size)[i][1] > buffer_size - 1
    /\ \E i \in 1..3 :
          Mapped(mesh.faces[1], buffer_size)[i][2] < 0
    /\ written[1] # {}

====
